---- MODULE Spec2Model ----
(***************************************************************************)
(* doubao-cli (main.go): the turn controller `executor`, the streaming     *)
(* consumer `sendStreamRequest` and the animation goroutine                *)
(* `loadingAnimation`, with the two unbuffered channels stopChan/doneChan  *)
(* and the WaitGroup that couple them.                                     *)
(*                                                                         *)
(* Strings are sequences of one-character strings, so that TrimSpace and   *)
(* the concatenation of deltas are computed and not assumed.               *)
(* Unbuffered channels: a blocking operation parks the goroutine at its    *)
(* program counter; the communication happens when the partner arrives.    *)
(* A select with a default branch never parks.                             *)
(***************************************************************************)
EXTENDS Integers, Sequences, FiniteSets, TLC

VARIABLES
    mode,                 \* which input universe the behaviour draws from
    conversationHistory,  \* var conversationHistory []Message
    input,                \* the line the prompt handed to executor
    in,                   \* executor's parameter after strings.TrimSpace
    pc,                   \* position of the main goroutine
    anim,                 \* animation goroutine: [pc, idx]
    stopChan,             \* "none" | "open" | "closed"
    doneChan,             \* "none" | "open" | "closed"
    wg,                   \* sync.WaitGroup counter
    resp,                 \* what client.Do and the body deliver this turn
    pos,                  \* number of lines the scanner has delivered
    fullContent,          \* var fullContent string
    firstContent,         \* firstContent := true
    ret,                  \* (string, error) returned by sendStreamRequest
    messages,             \* the Messages field of the request that was sent
    emitted,              \* reply text printed by fmt.Print(content) this turn
    preHistory,           \* history: conversationHistory when the turn began
    completed,            \* history: messages of the finished successful turns since the last clear
    turns,                \* history: conversational turns started
    requests,             \* history: client.Do calls of the current turn
    stopsSent,            \* history: stop signals received by the animation this turn
    animStarted,          \* history: animation goroutines started this turn
    lastEvent             \* history: what the last step of executor was

vars == <<mode, conversationHistory, input, in, pc, anim, stopChan, doneChan, wg, resp,
          pos, fullContent, firstContent, ret, messages, emitted, preHistory,
          completed, turns, requests, stopsSent, animStarted, lastEvent>>

----------------------------------------------------------------------------
(* Bounds of the model *)

\* conversational turns per behaviour of the dialogue universe
MaxTurns == 2
\* lines per response body in the dialogue universe
TurnFrames == 2
\* lines per response body in the single-request universe
MaxFrames == 3

----------------------------------------------------------------------------
(* Strings *)

Str_q     == <<"q">>
Str_quit  == <<"q", "u", "i", "t">>
Str_clear == <<"c", "l", "e", "a", "r">>

\* the lines the prompt can hand to executor
InputLines ==
    { <<>>, <<" ">>, Str_q, <<" ">> \o Str_quit, Str_clear,
      <<" ">> \o Str_clear \o <<" ">>, <<"x">>, <<" ", "y", " ">> }

IsSpace(c) == c = " "

RECURSIVE TrimLeft(_)
TrimLeft(s) ==
    IF s # <<>> /\ IsSpace(Head(s)) THEN TrimLeft(Tail(s)) ELSE s

RECURSIVE TrimRight(_)
TrimRight(s) ==
    IF s # <<>> /\ IsSpace(s[Len(s)]) THEN TrimRight(SubSeq(s, 1, Len(s) - 1)) ELSE s

\* the trailing spaces stay
TrimSpaceLeftOnly(s) == TrimLeft(s)

\* nothing is trimmed
TrimSpaceOmitted(s) == s

\* strings.TrimSpace
TrimSpace(s) == TrimRight(TrimLeft(s))

----------------------------------------------------------------------------
(* Messages and the transcript *)

Message(role, content) == [role |-> role, content |-> content]

\* append(conversationHistory, Message{Role: "user", Content: in})
AppendUser(h, content) == Append(h, Message("user", content))

\* the reply is stored under the user's role
AppendAssistantAsUser(h, content) == Append(h, Message("user", content))

\* append(conversationHistory, Message{Role: "assistant", Content: fullContent})
AppendAssistant(h, content) == Append(h, Message("assistant", content))

\* the provisional user message stays
RollbackLastOmitted(h) == h

\* conversationHistory[:len(conversationHistory)-1]
RollbackLast(h) == SubSeq(h, 1, Len(h) - 1)

\* conversationHistory = []Message{}
Cleared(h) == <<>>

----------------------------------------------------------------------------
(* The response: lines of the body *)

\* payload of a data line: kind "done" is the literal [DONE]; "bad" does not
\* unmarshal; "json" unmarshals into a StreamResponse with these choices
\* (each choice given by its delta content)
Payload(kind, choices) == [kind |-> kind, choices |-> choices]

NoPayload == Payload("none", <<>>)

Line(prefix, payload) == [prefix |-> prefix, payload |-> payload]

BlankLine    == Line("", NoPayload)
CommentLine  == Line(": ", NoPayload)
DoneLine     == Line("data: ", Payload("done", <<>>))
BadLine      == Line("data: ", Payload("bad", <<>>))
ChunkLine(choices) == Line("data: ", Payload("json", choices))

Delta_A  == <<"A">>
Delta_B  == <<"B">>
Delta_Hi == <<"H", "i">>

\* lines of the dialogue universe
DialogueLines ==
    { BlankLine, DoneLine, ChunkLine(<<>>), ChunkLine(<<Delta_A>>) }

\* lines of the single-request universe
StreamLines ==
    { BlankLine, CommentLine, DoneLine, BadLine,
      ChunkLine(<<>>), ChunkLine(<<<<>>>>), ChunkLine(<<Delta_A>>),
      ChunkLine(<<Delta_B>>), ChunkLine(<<Delta_Hi, Delta_A>>) }

SeqsUpTo(S, n) == UNION { [1..k -> S] : k \in 0..n }

LinesOf(m) == IF m = "dialogue" THEN DialogueLines ELSE StreamLines
FrameLimit(m) == IF m = "dialogue" THEN TurnFrames ELSE MaxFrames
TurnLimit(m) == IF m = "dialogue" THEN MaxTurns ELSE 1

Response(err, status, frames, readErr) ==
    [err |-> err, status |-> status, frames |-> frames, readErr |-> readErr]

NoResponse == Response("none", 0, <<>>, FALSE)

StatusOK == 200

\* outcomes of client.Do and of reading the body: a transport error (timeout
\* or other), a non-200 status (with or without a body), or a 200 with a
\* body that ends normally or with a read error after its last line
Responses(m) ==
    { Response(e, 0, <<>>, FALSE) : e \in {"fail", "timeout"} }
    \cup { Response("none", 500, f, FALSE) : f \in SeqsUpTo(LinesOf(m), FrameLimit(m)) }
    \cup { Response("none", StatusOK, f, r) :
             f \in SeqsUpTo(LinesOf(m), FrameLimit(m)), r \in BOOLEAN }

\* line == ""
IsBlank(line) == line.prefix = "" /\ line.payload = NoPayload

\* strings.HasPrefix(line, ": ")
IsComment(line) == line.prefix = ": "

\* strings.HasPrefix(line, "data: ")
IsData(line) == line.prefix = "data: "

\* strings.TrimPrefix(line, "data: ")
TrimDataPrefix(line) == line.payload

\* an unparsable payload ends the stream like the terminator
IsDoneOrUnparsable(payload) == payload.kind \in {"done", "bad"}

\* the terminator is not recognised
IsDoneNever(payload) == FALSE

\* line == "[DONE]"
IsDone(payload) == payload.kind = "done"

\* json.Unmarshal([]byte(line), &streamResp): err != nil
UnmarshalFails(payload) == payload.kind # "json"

\* streamResp.Choices after a successful Unmarshal
Choices(payload) == payload.choices

Result(text, err) == [text |-> text, err |-> err]

NoResult == Result(<<>>, "pending")

\* the empty-answer check is missing
ReturnAfterLoopNoEmptyCheck(scanErr, content) ==
    IF scanErr THEN Result(<<>>, "read") ELSE Result(content, "nil")

\* the three returns after the read loop (scanner.Err, empty answer, success)
ReturnAfterLoop(scanErr, content) ==
    IF scanErr THEN Result(<<>>, "read")
    ELSE IF content = <<>> THEN Result(<<>>, "empty")
    ELSE Result(content, "nil")

----------------------------------------------------------------------------
(* Channels *)

\* the send on stopChan can always proceed (a buffered channel)
StopSendAlwaysReady == TRUE

\* a goroutine is parked in a receive on stopChan: the only receive on
\* stopChan is a select case with a default branch, which never parks
StopReceiverParked == FALSE

\* a goroutine is parked in the send on stopChan (sendStreamRequest)
StopSenderParked == pc = "sendStop"

\* the animation is parked in done <- true
DoneSenderParked == anim.pc = "sendDone"

\* the main goroutine is parked in <-doneChan
DoneReceiverParked == pc \in {"recvDone", "execRecvDone"}

----------------------------------------------------------------------------
(* Initial states *)

InitCommon ==
    /\ conversationHistory = <<>>
    /\ input = <<>>
    /\ in = <<>>
    /\ pc = "idle"
    /\ anim = [pc |-> "none", idx |-> 0]
    /\ stopChan = "none"
    /\ doneChan = "none"
    /\ wg = 0
    /\ resp = NoResponse
    /\ pos = 0
    /\ fullContent = <<>>
    /\ firstContent = TRUE
    /\ ret = NoResult
    /\ messages = <<>>
    /\ emitted = <<>>
    /\ preHistory = <<>>
    /\ completed = <<>>
    /\ turns = 0
    /\ requests = 0
    /\ stopsSent = 0
    /\ animStarted = 0
    /\ lastEvent = "start"

Init == mode = "dialogue" /\ InitCommon

InitStream == mode = "stream" /\ InitCommon

----------------------------------------------------------------------------
(* executor *)

turnVars == <<anim, stopChan, doneChan, wg, resp, pos, fullContent, firstContent,
              ret, messages, emitted, preHistory, turns, requests, stopsSent,
              animStarted>>

\* in == "q" || in == "quit": os.Exit(0)
ExecutorQuit ==
    /\ pc = "idle"
    /\ \E l \in InputLines :
         /\ TrimSpace(l) \in {Str_q, Str_quit}
         /\ input' = l
         /\ in' = TrimSpace(l)
    /\ pc' = "exited"
    /\ lastEvent' = "quit"
    /\ UNCHANGED <<mode, conversationHistory, completed>>
    /\ UNCHANGED turnVars

\* in == "clear"
ExecutorClear ==
    /\ pc = "idle"
    /\ \E l \in InputLines :
         /\ TrimSpace(l) = Str_clear
         /\ input' = l
         /\ in' = TrimSpace(l)
    /\ conversationHistory' = Cleared(conversationHistory)
    /\ completed' = <<>>
    /\ lastEvent' = "clear"
    /\ UNCHANGED <<mode, pc>>
    /\ UNCHANGED turnVars

\* in == ""
ExecutorEmpty ==
    /\ pc = "idle"
    /\ \E l \in InputLines :
         /\ TrimSpace(l) = <<>>
         /\ input' = l
         /\ in' = TrimSpace(l)
    /\ lastEvent' = "empty"
    /\ UNCHANGED <<mode, pc, conversationHistory, completed>>
    /\ UNCHANGED turnVars

IsTurnInput(s) == s \notin {Str_q, Str_quit, Str_clear, <<>>}

\* the channels of the previous turn are used again
MakeChanReused(old) == IF old = "none" THEN "open" ELSE old

\* make(chan bool): a new open channel
MakeChan(old) == "open"

\* a conversational turn: lines 209-218, up to the call of sendStreamRequest
ExecutorStartTurn ==
    /\ pc = "idle"
    /\ turns < TurnLimit(mode)
    /\ \E l \in InputLines :
         /\ IsTurnInput(TrimSpace(l))
         /\ input' = l
         /\ in' = TrimSpace(l)
         /\ conversationHistory' = AppendUser(conversationHistory, TrimSpace(l))
    /\ preHistory' = conversationHistory
    /\ stopChan' = MakeChan(stopChan)
    /\ doneChan' = MakeChan(doneChan)
    /\ wg' = 1
    /\ anim' = [pc |-> "start", idx |-> 0]
    /\ animStarted' = 1
    /\ turns' = turns + 1
    /\ requests' = 0
    /\ stopsSent' = 0
    /\ resp' = NoResponse
    /\ pos' = 0
    /\ fullContent' = <<>>
    /\ firstContent' = TRUE
    /\ ret' = NoResult
    /\ messages' = <<>>
    /\ emitted' = <<>>
    /\ pc' = "request"
    /\ lastEvent' = "turn"
    /\ UNCHANGED <<mode, completed>>

----------------------------------------------------------------------------
(* sendStreamRequest *)

\* the process is running: no os.Exit and no panic yet
ProcessAlive == pc \notin {"exited", "crashed"}

\* only the newest message is sent
RequestMessagesLastOnly(h) == <<h[Len(h)]>>

\* requestBody.Messages: the slice executor passed
RequestMessages(h) == h

\* the status is not looked at
StatusFailsNever(status) == FALSE

\* resp.StatusCode != http.StatusOK
StatusFails(status) == status # StatusOK

\* client.Do(req) with the transcript as Messages, then the status check
SendRequest ==
    /\ pc = "request"
    /\ messages' = RequestMessages(conversationHistory)
    /\ requests' = requests + 1
    /\ \E r \in Responses(mode) :
         /\ resp' = r
         /\ IF r.err # "none"
              THEN /\ ret' = Result(<<>>, IF r.err = "timeout" THEN "timeout" ELSE "request")
                   /\ pc' = "select"
              ELSE IF StatusFails(r.status)
              THEN /\ ret' = Result(<<>>, "status")
                   /\ pc' = "select"
              ELSE /\ ret' = ret
                   /\ pc' = "scan"
    /\ pos' = 0
    /\ fullContent' = <<>>
    /\ firstContent' = TRUE
    /\ UNCHANGED <<mode, conversationHistory, input, in, anim, stopChan, doneChan, wg, emitted,
                   preHistory, completed, turns, stopsSent, animStarted, lastEvent>>

\* scanner.Scan() delivers another line
HasLine == pos < Len(resp.frames)

CurrentLine == resp.frames[pos + 1]

\* the line is passed over by a continue or by falling through the ifs
Skipped(line) ==
    \/ IsBlank(line)
    \/ IsComment(line)
    \/ ~IsData(line)
    \/ /\ IsData(line)
       /\ ~IsDone(TrimDataPrefix(line))
       /\ UnmarshalFails(TrimDataPrefix(line))

\* the line reaches streamResp.Choices[0]
Parsed(line) ==
    /\ ~IsBlank(line)
    /\ ~IsComment(line)
    /\ IsData(line)
    /\ ~IsDone(TrimDataPrefix(line))
    /\ ~UnmarshalFails(TrimDataPrefix(line))

\* Choices[0] with len(Choices) == 0: index out of range
IndexPanics(choices) == Len(choices) = 0

\* streamResp.Choices[0].Delta.Content
FirstContent(line) == Choices(TrimDataPrefix(line))[1]

loopFrame == <<mode, conversationHistory, input, in, anim, stopChan, doneChan, wg, resp,
               messages, preHistory, completed, turns, requests, stopsSent,
               animStarted, lastEvent>>

\* a line that contributes nothing: blank, comment, other prefix, unparsable
\* payload, or a parsed chunk whose first delta is empty
ScanSkip ==
    /\ pc = "scan"
    /\ HasLine
    /\ \/ Skipped(CurrentLine)
       \/ /\ Parsed(CurrentLine)
          /\ ~IndexPanics(Choices(TrimDataPrefix(CurrentLine)))
          /\ FirstContent(CurrentLine) = <<>>
    /\ pos' = pos + 1
    /\ UNCHANGED <<pc, fullContent, firstContent, ret, emitted>>
    /\ UNCHANGED loopFrame

\* data: [DONE] breaks the loop; scanner.Err() is nil
ScanDone ==
    /\ pc = "scan"
    /\ HasLine
    /\ ~IsBlank(CurrentLine) /\ ~IsComment(CurrentLine) /\ IsData(CurrentLine)
    /\ IsDone(TrimDataPrefix(CurrentLine))
    /\ pos' = pos + 1
    /\ ret' = ReturnAfterLoop(FALSE, fullContent)
    /\ pc' = "select"
    /\ UNCHANGED <<fullContent, firstContent, emitted>>
    /\ UNCHANGED loopFrame

\* scanner.Scan() returns false: end of body or read error
ScanEnd ==
    /\ pc = "scan"
    /\ ~HasLine
    /\ ret' = ReturnAfterLoop(resp.readErr, fullContent)
    /\ pc' = "select"
    /\ UNCHANGED <<pos, fullContent, firstContent, emitted>>
    /\ UNCHANGED loopFrame

\* a parsed chunk without choices: Choices[0] panics and the process dies
ScanPanic ==
    /\ pc = "scan"
    /\ HasLine
    /\ Parsed(CurrentLine)
    /\ IndexPanics(Choices(TrimDataPrefix(CurrentLine)))
    /\ pos' = pos + 1
    /\ pc' = "crashed"
    /\ UNCHANGED <<fullContent, firstContent, ret, emitted>>
    /\ UNCHANGED loopFrame

\* the first non-empty delta: stopChan <- true parks the consumer
ScanFirstDelta ==
    /\ pc = "scan"
    /\ HasLine
    /\ Parsed(CurrentLine)
    /\ ~IndexPanics(Choices(TrimDataPrefix(CurrentLine)))
    /\ FirstContent(CurrentLine) # <<>>
    /\ firstContent
    /\ pos' = pos + 1
    /\ pc' = "sendStop"
    /\ UNCHANGED <<fullContent, firstContent, ret, emitted>>
    /\ UNCHANGED loopFrame

\* the delta is put in front
AccumulateInFront(content, delta) == delta \o content

\* fmt.Print(content); fullContent += content
Accumulate(content, delta) == content \o delta

\* the flag is never cleared
FirstContentNotCleared == TRUE

\* firstContent = false
FirstContentCleared == FALSE

\* the read loop and the returns after it as a function of the body: the
\* result, and the number of stop signals (one when a delta was accumulated)
RECURSIVE ReadLoop(_, _, _)
ReadLoop(frames, readErr, content) ==
    LET stops == IF content # <<>> THEN 1 ELSE 0
    IN  IF frames = <<>>
          THEN [ret |-> ReturnAfterLoop(readErr, content), stops |-> stops]
        ELSE IF Skipped(Head(frames))
          THEN ReadLoop(Tail(frames), readErr, content)
        ELSE IF IsDone(TrimDataPrefix(Head(frames)))
          THEN [ret |-> ReturnAfterLoop(FALSE, content), stops |-> stops]
        ELSE IF IndexPanics(Choices(TrimDataPrefix(Head(frames))))
          THEN [ret |-> Result(<<>>, "panic"), stops |-> stops]
        ELSE IF FirstContent(Head(frames)) = <<>>
          THEN ReadLoop(Tail(frames), readErr, content)
        ELSE ReadLoop(Tail(frames), readErr,
                      Accumulate(content, FirstContent(Head(frames))))

\* after the rendezvous: firstContent = false, print and accumulate the delta
EmitFirst ==
    /\ pc = "emit"
    /\ firstContent' = FirstContentCleared
    /\ emitted' = emitted \o FirstContent(resp.frames[pos])
    /\ fullContent' = Accumulate(fullContent, FirstContent(resp.frames[pos]))
    /\ pc' = "scan"
    /\ UNCHANGED <<pos, ret>>
    /\ UNCHANGED loopFrame

\* a later non-empty delta: print and accumulate
ScanDelta ==
    /\ pc = "scan"
    /\ HasLine
    /\ Parsed(CurrentLine)
    /\ ~IndexPanics(Choices(TrimDataPrefix(CurrentLine)))
    /\ FirstContent(CurrentLine) # <<>>
    /\ ~firstContent
    /\ pos' = pos + 1
    /\ emitted' = emitted \o FirstContent(CurrentLine)
    /\ fullContent' = Accumulate(fullContent, FirstContent(CurrentLine))
    /\ UNCHANGED <<pc, firstContent, ret>>
    /\ UNCHANGED loopFrame

----------------------------------------------------------------------------
(* loadingAnimation *)

\* chars := []string{".", "..", "...", "...."}
NumChars == 4

animFrame == <<mode, conversationHistory, input, in, stopChan, doneChan, resp, pos,
               fullContent, firstContent, ret, messages, emitted, preHistory,
               completed, turns, requests, animStarted, lastEvent>>

\* fmt.Print("\n豆包：正在思考")
AnimationStart ==
    /\ ProcessAlive
    /\ anim.pc = "start"
    /\ anim' = [anim EXCEPT !.pc = "loop"]
    /\ UNCHANGED <<pc, wg, stopsSent>>
    /\ UNCHANGED animFrame

\* default branch of the select: no sender waits on stop; print the next
\* frame, idx++ (kept modulo len(chars)), sleep
AnimationFrame ==
    /\ ProcessAlive
    /\ anim.pc = "loop"
    /\ ~StopSenderParked
    /\ anim' = [anim EXCEPT !.idx = (anim.idx + 1) % NumChars]
    /\ UNCHANGED <<pc, wg, stopsSent>>
    /\ UNCHANGED animFrame

\* the consumer goes on to print without <-doneChan
AfterStopSentNoAwait == "emit"

\* where the consumer is once its send was taken: at <-doneChan
AfterStopSent == "recvDone"

\* case <-stop: the parked sender in sendStreamRequest is released
AnimationStop ==
    /\ ProcessAlive
    /\ anim.pc = "loop"
    /\ StopSenderParked
    /\ anim' = [anim EXCEPT !.pc = "clear"]
    /\ pc' = AfterStopSent
    /\ stopsSent' = stopsSent + 1
    /\ UNCHANGED wg
    /\ UNCHANGED animFrame

\* fmt.Print("\r豆包：")
AnimationClear ==
    /\ ProcessAlive
    /\ anim.pc = "clear"
    /\ anim' = [anim EXCEPT !.pc = "sendDone"]
    /\ UNCHANGED <<pc, wg, stopsSent>>
    /\ UNCHANGED animFrame

\* done <- true meets <-doneChan
DoneRendezvous ==
    /\ ProcessAlive
    /\ DoneSenderParked
    /\ DoneReceiverParked
    /\ anim' = [anim EXCEPT !.pc = "return"]
    /\ pc' = IF pc = "recvDone" THEN "emit" ELSE "wait"
    /\ UNCHANGED <<wg, stopsSent>>
    /\ UNCHANGED animFrame

\* return; defer wg.Done()
AnimationReturn ==
    /\ ProcessAlive
    /\ anim.pc = "return"
    /\ anim' = [anim EXCEPT !.pc = "none"]
    /\ wg' = wg - 1
    /\ UNCHANGED <<pc, stopsSent>>
    /\ UNCHANGED animFrame

----------------------------------------------------------------------------
(* executor, after sendStreamRequest returned *)

tailFrame == <<mode, input, in, resp, pos, fullContent, firstContent, ret, messages,
               emitted, preHistory, turns, requests, animStarted>>

\* select { case stopChan <- true: <-doneChan; default: }
ExecutorSelect ==
    /\ pc = "select"
    /\ IF StopReceiverParked
         THEN /\ pc' = "execRecvDone"
              /\ anim' = [anim EXCEPT !.pc = "clear"]
              /\ stopsSent' = stopsSent + 1
         ELSE /\ pc' = "wait"
              /\ UNCHANGED <<anim, stopsSent>>
    /\ UNCHANGED <<conversationHistory, completed, stopChan, doneChan, wg, lastEvent>>
    /\ UNCHANGED tailFrame

\* executor does not wait for the animation
WaitPassesAlways(counter) == TRUE

\* wg.Wait() returns when the counter is zero
WaitPasses(counter) == counter = 0

\* wg.Wait()
ExecutorWait ==
    /\ pc = "wait"
    /\ WaitPasses(wg)
    /\ pc' = "close"
    /\ UNCHANGED <<conversationHistory, completed, anim, stopChan, doneChan, wg,
                   stopsSent, lastEvent>>
    /\ UNCHANGED tailFrame

\* close(stopChan); close(doneChan)
ExecutorClose ==
    /\ pc = "close"
    /\ stopChan' = "closed"
    /\ doneChan' = "closed"
    /\ pc' = "reconcile"
    /\ UNCHANGED <<conversationHistory, completed, anim, wg, stopsSent, lastEvent>>
    /\ UNCHANGED tailFrame

\* err != nil: print the error, drop the provisional user message
ExecutorFail ==
    /\ pc = "reconcile"
    /\ ret.err # "nil"
    /\ conversationHistory' = RollbackLast(conversationHistory)
    /\ pc' = "idle"
    /\ lastEvent' = "failed"
    /\ UNCHANGED <<completed, anim, stopChan, doneChan, wg, stopsSent>>
    /\ UNCHANGED tailFrame

\* err == nil: append the assistant message
ExecutorSucceed ==
    /\ pc = "reconcile"
    /\ ret.err = "nil"
    /\ conversationHistory' = AppendAssistant(conversationHistory, ret.text)
    /\ completed' = completed \o <<Message("user", in), Message("assistant", ret.text)>>
    /\ pc' = "idle"
    /\ lastEvent' = "replied"
    /\ UNCHANGED <<anim, stopChan, doneChan, wg, stopsSent>>
    /\ UNCHANGED tailFrame

----------------------------------------------------------------------------
(* Specifications *)

Animation ==
    \/ AnimationStart
    \/ AnimationFrame
    \/ AnimationStop
    \/ AnimationClear
    \/ DoneRendezvous
    \/ AnimationReturn

Main ==
    \/ SendRequest
    \/ ScanSkip
    \/ ScanDone
    \/ ScanEnd
    \/ ScanPanic
    \/ ScanFirstDelta
    \/ EmitFirst
    \/ ScanDelta
    \/ ExecutorSelect
    \/ ExecutorWait
    \/ ExecutorClose
    \/ ExecutorFail
    \/ ExecutorSucceed

Input ==
    \/ ExecutorQuit
    \/ ExecutorClear
    \/ ExecutorEmpty
    \/ ExecutorStartTurn

Next == Input \/ Main \/ Animation

\* the dialogue: several turns, short bodies
Spec == Init /\ [][Next]_vars

\* one request, all kinds of lines
SpecStream == InitStream /\ [][Next]_vars

\* the Go scheduler runs every runnable goroutine
Fairness == WF_vars(Main) /\ WF_vars(Animation)

FairSpec == Spec /\ Fairness

----------------------------------------------------------------------------
(* Properties *)

\* sendStreamRequest has returned to executor in the current turn
Returned == ret.err # "pending"

EndsWithPair(h) ==
    /\ Len(h) >= 2
    /\ h[Len(h) - 1].role = "user"
    /\ h[Len(h)].role = "assistant"

\* C1: in every conversational turn, whatever sendStreamRequest returned
\* (success or any failure), executor eventually gets the animation to
\* terminate, passes wg.Wait(), finishes the turn and awaits the next line.
C1_TurnEventuallyReturns ==
    (pc = "select") ~> (pc = "idle" /\ anim.pc = "none")

\* C2: a turn in which sendStreamRequest failed ends with the transcript
\* equal, in length and content, to the transcript before the turn.
C2_FailedTurnRestoresTranscript ==
    (pc = "select" /\ ret.err # "nil")
        ~> (pc = "idle" /\ conversationHistory = preHistory)

\* what the code does guarantee: a turn in which the consumer stopped the
\* animation itself (a non-empty delta arrived) does return
StoppedTurnReturns ==
    (pc = "select" /\ stopsSent = 1) ~> (pc = "idle" /\ anim.pc = "none")

\* and a failed turn that returns has restored the transcript
ReturnedFailureRestoresTranscript ==
    (pc = "idle" /\ lastEvent = "failed") => conversationHistory = preHistory

\* C3: a data frame that parses but has no choices does not crash
\* sendStreamRequest: the process never dies of it.
C3_EmptyChoicesDoNotCrash == pc # "crashed"

\* C4: a successful turn leaves the transcript two entries longer than it
\* was before the turn, the two being (user, trimmed input) and
\* (assistant, the reply returned by sendStreamRequest), in that order.
C4_SuccessfulTurnAppendsPair ==
    (pc = "idle" /\ lastEvent = "replied") =>
        /\ Len(conversationHistory) = Len(preHistory) + 2
        /\ conversationHistory =
             preHistory \o << [role |-> "user", content |-> TrimRight(TrimLeft(input))],
                              [role |-> "assistant", content |-> ret.text] >>
        /\ ret.text = fullContent
        /\ ret.text # <<>>

\* two successful turns in a row: the second pair follows the first
C4_Witness ==
    /\ pc = "idle"
    /\ lastEvent = "replied"
    /\ Len(conversationHistory) = 4
    /\ input = <<" ", "y", " ">>
    /\ conversationHistory[3] = [role |-> "user", content |-> <<"y">>]

\* C5: whenever the prompt awaits input (or the process has exited from
\* there), the transcript is empty or ends with a (user, assistant) pair; a
\* trailing user entry exists only while a turn is in progress.
C5_IdleTranscriptIsPaired ==
    /\ pc \in {"idle", "exited"} =>
         (conversationHistory = <<>> \/ EndsWithPair(conversationHistory))
    /\ (conversationHistory # <<>>
          /\ conversationHistory[Len(conversationHistory)].role = "user")
         => pc \notin {"idle", "exited"}

\* a failed turn after a successful one has been undone
C5_Witness ==
    /\ pc = "idle"
    /\ lastEvent = "failed"
    /\ turns = 2
    /\ Len(conversationHistory) = 2

\* the line is a data frame carrying the terminator token
IsTerminator(l) == l.prefix = "data: " /\ l.payload.kind = "done"

\* the text a data frame contributes: the delta content of its first choice,
\* when its payload parses and has a choice
DeltaOf(l) ==
    IF l.prefix = "data: " /\ l.payload.kind = "json" /\ Len(l.payload.choices) > 0
      THEN l.payload.choices[1]
      ELSE <<>>

\* in-order concatenation of the deltas of the frames before the terminator
RECURSIVE ExpectedReply(_)
ExpectedReply(frames) ==
    IF frames = <<>> \/ IsTerminator(Head(frames))
      THEN <<>>
      ELSE DeltaOf(Head(frames)) \o ExpectedReply(Tail(frames))

HasTerminator(frames) == \E i \in 1..Len(frames) : IsTerminator(frames[i])

\* C6: on a 200 response, the text sendStreamRequest returns on success is
\* the in-order concatenation of the non-empty first-choice deltas of the
\* parsable data frames before the terminator (or the end of the stream),
\* and the same text is what was emitted: "Hi" yields "Hi"; "A", "", "B"
\* yield "AB".
C6_ReplyIsConcatenationOfDeltas ==
    (Returned /\ resp.err = "none" /\ resp.status = 200) =>
        /\ emitted = ExpectedReply(resp.frames)
        /\ ret.err = "nil" => ret.text = ExpectedReply(resp.frames)
        /\ ret.err = "nil" => ret.text = emitted
        /\ (resp.frames = <<ChunkLine(<<Delta_Hi, Delta_A>>), DoneLine>>)
             => ret = [text |-> <<"H", "i">>, err |-> "nil"]
        /\ (resp.frames = <<ChunkLine(<<Delta_A>>), ChunkLine(<<<<>>>>), ChunkLine(<<Delta_B>>)>>
              /\ ~resp.readErr)
             => ret = [text |-> <<"A", "B">>, err |-> "nil"]

\* the deltas "A", "", "B" were read and "AB" returned
C6_Witness ==
    /\ pc = "select"
    /\ resp.frames = <<ChunkLine(<<Delta_A>>), ChunkLine(<<<<>>>>), ChunkLine(<<Delta_B>>)>>
    /\ ret = [text |-> <<"A", "B">>, err |-> "nil"]
    /\ emitted = <<"A", "B">>

\* C7: a 200 response whose stream ends, by terminator or end of body, with
\* no reply text makes sendStreamRequest return the empty-answer failure,
\* not a success with empty text.
C7_EmptyStreamIsEmptyAnswer ==
    (/\ Returned
     /\ resp.err = "none" /\ resp.status = 200
     /\ HasTerminator(resp.frames) \/ ~resp.readErr
     /\ ExpectedReply(resp.frames) = <<>>)
        => ret = [text |-> <<>>, err |-> "empty"]

\* blank line, comment frame, terminator: empty answer
C7_Witness ==
    /\ pc = "select"
    /\ resp.status = 200
    /\ resp.frames = <<BlankLine, CommentLine, DoneLine>>
    /\ ret.err = "empty"

\* C8: the messages sent with a turn's request are the messages of the
\* earlier completed turns (since the last clear), in order, followed by
\* the user message of this turn; nothing of a cleared or failed turn.
C8_RequestCarriesTranscript ==
    (pc \notin {"idle", "exited", "request"}) =>
        /\ messages = completed \o << [role |-> "user", content |-> in] >>
        /\ messages = conversationHistory

\* the second request follows a completed turn
C8_Witness ==
    /\ pc = "scan"
    /\ turns = 2
    /\ Len(messages) = 3
    /\ messages[1] = [role |-> "user", content |-> <<"x">>]
    /\ messages[2].role = "assistant"
    /\ messages[3] = [role |-> "user", content |-> <<"y">>]

ClearInputs == { Str_clear, <<" ">> \o Str_clear \o <<" ">> }

\* C9: the input "clear" (after trimming) empties the transcript, and
\* neither appends a message, starts an animation goroutine, issues a
\* request, creates channels nor exits.
C9_ClearEmptiesTranscript ==
    [][ (pc = "idle" /\ input' \in ClearInputs) =>
          /\ conversationHistory' = <<>>
          /\ pc' = "idle"
          /\ UNCHANGED <<anim, stopChan, doneChan, wg, requests, animStarted,
                         messages, turns>> ]_vars

\* clear after two successful turns
C9_Witness ==
    /\ pc = "idle"
    /\ lastEvent = "clear"
    /\ input = <<" ">> \o Str_clear \o <<" ">>
    /\ turns = 2
    /\ Len(preHistory) = 2
    /\ ret.err = "nil"
    /\ conversationHistory = <<>>

EmptyInputs == { <<>>, <<" ">> }

\* C10: an input that is empty after trimming leaves the transcript as it
\* is, starts no animation goroutine, creates no channels and issues no
\* request.
C10_EmptyInputChangesNothing ==
    [][ (pc = "idle" /\ input' \in EmptyInputs) =>
          /\ pc' = "idle"
          /\ UNCHANGED <<conversationHistory, anim, stopChan, doneChan, wg,
                         requests, animStarted, messages, turns>> ]_vars

\* a line of spaces after a successful turn
C10_Witness ==
    /\ pc = "idle"
    /\ lastEvent = "empty"
    /\ input = <<" ">>
    /\ Len(conversationHistory) = 2

----------------------------------------------------------------------------
(* Properties of the handshake and of the stream *)

\* positions from which loadingAnimation still prints: before its first
\* print, in its loop, and before the overwrite with the prefix
AnimationCanWrite == anim.pc \in {"start", "loop", "clear"}

\* the animation is past its last print and past done <- true
AnimationFinishing == anim.pc \in {"return", "none"}

\* C11: once the first reply character of a turn is written, the animation
\* writes nothing more in that turn: all its writes precede the consumer's
\* receipt of the stop-acknowledgment, which precedes the first reply
\* character.
C11_NoAnimationWriteAfterReply ==
    /\ (pc = "emit" \/ emitted # <<>>) => AnimationFinishing
    /\ (AnimationCanWrite \/ anim.pc = "sendDone") => (pc # "emit" /\ emitted = <<>>)

\* reply text is being printed while the animation goroutine has not yet
\* run its deferred wg.Done()
C11_Witness ==
    /\ pc = "scan"
    /\ emitted = <<"A">>
    /\ anim.pc = "return"
    /\ pos < Len(resp.frames)

\* number of lines that carry a non-empty first delta
RECURSIVE NonEmptyDeltas(_)
NonEmptyDeltas(frames) ==
    IF frames = <<>> THEN 0
    ELSE (IF DeltaOf(Head(frames)) # <<>> THEN 1 ELSE 0) + NonEmptyDeltas(Tail(frames))

\* the lines the scanner has delivered so far
Consumed == SubSeq(resp.frames, 1, pos)

\* C12: within one request the stop signal is sent at most once, at the first
\* non-empty delta and at no other frame; it is sent and acknowledged before
\* that delta is emitted, and later non-empty deltas do not send it again.
C12_StopOnceAtFirstDelta ==
    /\ stopsSent <= 1
    /\ pc = "sendStop" =>
         /\ stopsSent = 0 /\ emitted = <<>>
         /\ DeltaOf(resp.frames[pos]) # <<>>
         /\ NonEmptyDeltas(SubSeq(resp.frames, 1, pos - 1)) = 0
    /\ pc \in {"recvDone", "emit"} =>
         /\ stopsSent = 1 /\ emitted = <<>>
         /\ DeltaOf(resp.frames[pos]) # <<>>
         /\ NonEmptyDeltas(SubSeq(resp.frames, 1, pos - 1)) = 0
    /\ (requests = 1 /\ pc \in {"scan", "select", "wait", "close", "reconcile", "crashed"}) =>
         stopsSent = (IF NonEmptyDeltas(Consumed) > 0 THEN 1 ELSE 0)
    /\ emitted # <<>> => stopsSent = 1

\* an unparsable frame and two non-empty deltas were read: one stop
C12_Witness ==
    /\ pc = "scan"
    /\ resp.frames = <<BadLine, ChunkLine(<<Delta_A>>), ChunkLine(<<Delta_B>>)>>
    /\ pos = 3
    /\ emitted = <<"A", "B">>
    /\ stopsSent = 1

\* C13: executor prints the error, or appends the reply and prints the
\* trailing newlines, only after the animation goroutine has written its
\* last frame and returned.
C13_ReconcileAfterAnimationEnded ==
    /\ pc \in {"close", "reconcile"} => (anim.pc = "none" /\ wg = 0)
    /\ (pc = "idle" /\ lastEvent \in {"failed", "replied"}) => anim.pc = "none"

\* the error of a read failure is about to be printed
C13_Witness ==
    /\ pc = "reconcile"
    /\ ret.err = "read"
    /\ anim.pc = "none"
    /\ emitted = <<"A">>

\* C14: when the consumer already stopped the animation, executor's stop
\* attempt after the request is a no-op: the select takes default, no second
\* stop is delivered, executor does not wait on doneChan and is held at
\* wg.Wait() only by an animation that is already returning.
C14_SecondStopIsNoOp ==
    /\ pc # "execRecvDone"
    /\ stopsSent <= 1
    /\ (stopsSent = 1 /\ pc \in {"select", "wait"}) => AnimationFinishing
    /\ (stopsSent = 1 /\ pc \in {"close", "reconcile"}) => anim.pc = "none"

\* executor took the default branch while the stopped animation had not yet
\* returned
C14_Witness ==
    /\ pc = "wait"
    /\ stopsSent = 1
    /\ anim.pc = "return"
    /\ wg = 1

\* C15: a non-200 status makes sendStreamRequest fail at once with the
\* status-code error: no line of the body is read, nothing is emitted, no
\* stop signal is sent, and the turn issues exactly one request.
C15_BadStatusFailsImmediately ==
    /\ requests <= 1
    /\ pc \notin {"idle", "exited", "request"} => requests = 1
    /\ (requests = 1 /\ resp.err = "none" /\ resp.status # 200) =>
         /\ ret = [text |-> <<>>, err |-> "status"]
         /\ pos = 0
         /\ emitted = <<>>
         /\ fullContent = <<>>
         /\ stopsSent = 0
         /\ pc \notin {"scan", "sendStop", "recvDone", "emit", "crashed"}

\* a 500 whose body holds a delta: the body is not read
C15_Witness ==
    /\ pc = "wait"
    /\ resp.status = 500
    /\ resp.frames = <<ChunkLine(<<Delta_A>>), DoneLine>>
    /\ ret.err = "status"
    /\ requests = 1

\* sendStreamRequest is over on a 200 response: it returned or it panicked
Finished ==
    /\ resp.err = "none" /\ resp.status = 200
    /\ Returned \/ pc = "crashed"

\* what the request came to: its result (or the panic) and the stops sent
Actual ==
    [ret |-> IF pc = "crashed" THEN [text |-> <<>>, err |-> "panic"] ELSE ret,
     stops |-> stopsSent]

\* a data frame whose payload does not parse as a chunk record
Unparsable(l) == l.prefix = "data: " /\ l.payload.kind = "bad"

RemoveUnparsable(frames) == SelectSeq(frames, LAMBDA l : ~Unparsable(l))

\* C16: unparsable data frames are skipped without error: the result of
\* sendStreamRequest (reply text or failure kind) and the number of stop
\* signals are those of the stream with all unparsable data frames removed.
C16_UnparsableFramesAreSkipped ==
    Finished =>
        /\ Actual = ReadLoop(resp.frames, resp.readErr, <<>>)
        /\ Actual = ReadLoop(RemoveUnparsable(resp.frames), resp.readErr, <<>>)

\* unparsable frames before and after the only delta
C16_Witness ==
    /\ pc = "select"
    /\ resp.frames = <<BadLine, ChunkLine(<<Delta_A>>), BadLine>>
    /\ ~resp.readErr
    /\ ret = [text |-> <<"A">>, err |-> "nil"]
    /\ stopsSent = 1

\* position of the first terminator frame
TerminatorIndex(frames) ==
    CHOOSE i \in 1..Len(frames) :
        /\ IsTerminator(frames[i])
        /\ \A j \in 1..(i - 1) : ~IsTerminator(frames[j])

\* the deltas of all the lines, terminator or not
RECURSIVE ConcatDeltas(_)
ConcatDeltas(frames) ==
    IF frames = <<>> THEN <<>>
    ELSE DeltaOf(Head(frames)) \o ConcatDeltas(Tail(frames))

\* C17: reading stops at the first terminator frame: the lines after it
\* add nothing to the reply or to the output, and the terminator is no
\* failure of its own (with a non-empty delta before it the request
\* succeeds).
C17_TerminatorEndsReading ==
    (requests = 1 /\ resp.err = "none" /\ resp.status = 200 /\ HasTerminator(resp.frames)) =>
        LET t == TerminatorIndex(resp.frames)
            before == ConcatDeltas(SubSeq(resp.frames, 1, t - 1))
        IN  /\ pos <= t
            /\ Returned =>
                 /\ pos = t
                 /\ emitted = before
                 /\ ret = IF before = <<>> THEN [text |-> <<>>, err |-> "empty"]
                          ELSE [text |-> before, err |-> "nil"]

\* a delta, the terminator, and a delta that is never read
C17_Witness ==
    /\ pc = "select"
    /\ resp.frames = <<ChunkLine(<<Delta_A>>), DoneLine, ChunkLine(<<Delta_B>>)>>
    /\ ret = [text |-> <<"A">>, err |-> "nil"]
    /\ emitted = <<"A">>
    /\ pos = 2

\* the animation goroutine has not been told to stop
AnimationRunning == anim.pc \in {"start", "loop"}

\* C18: when sendStreamRequest returns, the animation has been stopped and
\* has acknowledged exactly when a non-empty delta was accumulated: a
\* success finds it returning or gone; a request error, a non-200 status, an
\* empty answer or a read error before any delta finds it running, no stop
\* sent.
C18_StoppedIffDeltaAccumulated ==
    pc = "select" =>
        /\ stopsSent = 1 <=> fullContent # <<>>
        /\ stopsSent = 0 <=> fullContent = <<>>
        /\ fullContent # <<>> => AnimationFinishing
        /\ fullContent = <<>> => AnimationRunning
        /\ ret.err = "nil" => (stopsSent = 1 /\ AnimationFinishing)
        /\ ret.err \in {"request", "timeout", "status", "empty"} =>
             (stopsSent = 0 /\ AnimationRunning)
        /\ (ret.err = "read" /\ emitted = <<>>) => (stopsSent = 0 /\ AnimationRunning)
        /\ (ret.err = "read" /\ emitted # <<>>) => (stopsSent = 1 /\ AnimationFinishing)

\* a read error after a delta: a failure that finds the animation stopped
C18_Witness ==
    /\ pc = "select"
    /\ ret.err = "read"
    /\ fullContent = <<"A">>
    /\ stopsSent = 1
    /\ anim.pc = "return"

\* each party blocked on stopChan or doneChan has its partner on the way
RendezvousPartners ==
    /\ pc = "sendStop" => (AnimationRunning /\ stopChan = "open" /\ wg = 1)
    /\ anim.pc \in {"clear", "sendDone"} => (pc = "recvDone" /\ doneChan = "open")
    /\ pc = "recvDone" => anim.pc \in {"clear", "sendDone"}
    /\ pc # "execRecvDone"

\* C19: the stop-and-await rendezvous never deadlocks: the consumer's
\* blocking send on stopChan finds the animation running, which takes it at
\* its next iteration; the animation's send on doneChan is met by the
\* receive of the sender of the stop; nobody stays blocked on either channel.
C19_RendezvousNeverDeadlocks ==
    /\ RendezvousPartners
    /\ pc = "sendStop" =>
         /\ ENABLED (AnimationStart \/ AnimationStop)
         /\ ~ENABLED AnimationFrame
    /\ pc = "recvDone" => ENABLED (AnimationClear \/ DoneRendezvous)
    /\ anim.pc = "sendDone" => ENABLED DoneRendezvous

\* with both goroutines scheduled fairly, the consumer's send and its wait
\* for the acknowledgment end, and so does the animation's send
RendezvousCompletes ==
    /\ (pc \in {"sendStop", "recvDone"}) ~> (pc = "emit")
    /\ (anim.pc = "sendDone") ~> (anim.pc = "return")

\* the consumer is parked in its send before the animation's first print
C19_Witness ==
    /\ pc = "sendStop"
    /\ anim.pc = "start"
    /\ stopsSent = 0

\* executor is inside a turn, before close(stopChan)
BeforeClose ==
    pc \in {"request", "scan", "sendStop", "recvDone", "emit", "select",
            "execRecvDone", "wait", "close"}

\* C20: stopChan and doneChan are new in each turn and closed once, after
\* the animation of that turn returned; no send or receive meets a closed
\* channel; at most one animation goroutine exists, none while the prompt
\* awaits input.
C20_ChannelsFreshAndClosedOnce ==
    /\ BeforeClose => (stopChan = "open" /\ doneChan = "open")
    /\ (stopChan = "closed" \/ doneChan = "closed") =>
         /\ stopChan = "closed" /\ doneChan = "closed"
         /\ anim.pc = "none" /\ wg = 0
         /\ pc \in {"reconcile", "idle", "exited"}
    /\ anim.pc # "none" =>
         /\ stopChan = "open" /\ doneChan = "open"
         /\ wg = 1 /\ animStarted = 1
         /\ pc \notin {"idle", "exited", "reconcile"}
    /\ animStarted <= 1
    /\ wg \in {0, 1}
    /\ pc \in {"idle", "exited"} => (anim.pc = "none" /\ stopChan # "open" /\ doneChan # "open")

\* the second turn runs on open channels although those of the first turn
\* were closed
C20_Witness ==
    /\ pc = "sendStop"
    /\ turns = 2
    /\ Len(preHistory) = 2
    /\ stopChan = "open"
    /\ doneChan = "open"
    /\ anim.pc = "loop"

====
